---- MODULE Spec2Model ----
(***************************************************************************)
(* Product catalog API (Django REST framework): the Category and Product   *)
(* tables, the write gate HasAPIKeyForWriteOperations, the CRUD handlers   *)
(* of CategoryViewSet and ProductViewSet, the product list with            *)
(* ProductFilter and OrderingFilter, and ProductViewSet.purchase.          *)
(*                                                                         *)
(* A request handler is atomic between two database statements.  purchase  *)
(* touches the database twice, get_object() (a SELECT) and product.save()  *)
(* (an UPDATE of every column, and an INSERT when the UPDATE matched no    *)
(* row), with nothing holding the row in between, so it is two steps of    *)
(* one worker; the other handlers are one step, whose response is held in  *)
(* resp until it is delivered.                                             *)
(***************************************************************************)
EXTENDS Integers, Sequences, FiniteSets, TLC

VARIABLES
    categories,        \* Category table: id -> row
    products,          \* Product table: id -> row
    nextCategoryId,    \* AUTOINCREMENT of the Category table
    nextProductId,     \* AUTOINCREMENT of the Product table
    now,               \* the clock read by auto_now_add
    req,               \* purchase workers: the request each one is serving
    resp               \* the response of a one-step handler, until delivered

vars == <<categories, products, nextCategoryId, nextProductId, now, req, resp>>

(***************************************************************************)
(* Bounds of the model.                                                    *)
(***************************************************************************)
MaxProducts == 3       \* product rows ever created through POST /products/
MaxCategories == 2     \* category rows ever created
MaxStock == 2          \* largest stock_quantity a client writes
StoreRows == 2         \* product rows created where both tables are written
MaxClock == 1          \* ticks of the clock
FewRows == 1           \* rows created per table where few are needed

(***************************************************************************)
(* Values.                                                                 *)
(***************************************************************************)
\* category = NULL (models.py: null=True); ids start at 1
NoCategory == 0

\* a name is a sequence of characters
Chars == {"A", "B", "a", "b"}

\* code point of a character (binary collation of the name column)
Code(c) == CASE c = "A" -> 65 [] c = "B" -> 66 [] c = "a" -> 97 [] c = "b" -> 98
             [] c = "0" -> 48 [] c = "1" -> 49 [] c = "2" -> 50 [] c = "3" -> 51
             [] c = "4" -> 52 [] c = "5" -> 53 [] c = "6" -> 54 [] c = "7" -> 55
             [] c = "8" -> 56 [] c = "9" -> 57 [] c = "." -> 46 [] c = "-" -> 45
             [] OTHER -> 0

\* str.lower() of one character
LowerChar(c) == CASE c = "A" -> "a" [] c = "B" -> "b" [] OTHER -> c

Lower(s) == [i \in 1..Len(s) |-> LowerChar(s[i])]

\* the API keys issued (rest_framework_api_key's table); a request carries
\* one of these, another string, or no Authorization header
IssuedKeys == {"key1"}
NoKey == "none"
RequestKeys == {NoKey, "key1", "bogus"}

\* HTTP
SAFE_METHODS == {"GET", "HEAD", "OPTIONS"}

HTTP_200_OK == 200
HTTP_201_CREATED == 201
HTTP_204_NO_CONTENT == 204
HTTP_400_BAD_REQUEST == 400
HTTP_403_FORBIDDEN == 403
HTTP_404_NOT_FOUND == 404
HTTP_500_INTERNAL_SERVER_ERROR == 500

(***************************************************************************)
(* The access-control gate.                                                *)
(***************************************************************************)
\* HasAPIKey().has_permission: the key of the request is an issued key
HasAPIKey(key) == key \in IssuedKeys

\* the gate asking only for an Authorization header
has_permission_AnyKey(method, key) ==
    IF method \in SAFE_METHODS THEN TRUE ELSE key # NoKey

has_permission(method, key) ==
    IF method \in SAFE_METHODS THEN TRUE ELSE HasAPIKey(key)

(***************************************************************************)
(* Rows.                                                                   *)
(***************************************************************************)
Category(name) == [name |-> name]

Product(name, price, stock_quantity, is_featured, category, created_at) ==
    [name |-> name, price |-> price, stock_quantity |-> stock_quantity,
     is_featured |-> is_featured, category |-> category,
     created_at |-> created_at]

ProductFields == {"name", "price", "stock_quantity", "is_featured", "category"}

\* the row used where a record is needed and no product is meant
NoProduct == Product(<<>>, 0, 0, FALSE, NoCategory, 0)

(***************************************************************************)
(* The body of a purchase request: the JSON value under "quantity".        *)
(*   t = "missing"  no such key          t = "null"   JSON null            *)
(*   t = "int"      JSON integer n       t = "bool"   JSON true/false (n)  *)
(*   t = "float"    JSON number n / 10   t = "str"    JSON string s        *)
(*   t = "list"     JSON array                                             *)
(***************************************************************************)
Quantity(t, n, s) == [t |-> t, n |-> n, s |-> s]

NoQuantity == Quantity("missing", 0, <<>>)

Digits == {"0", "1", "2", "3", "4", "5", "6", "7", "8", "9"}

DigitValue(c) == Code(c) - 48

RECURSIVE DigitsValue(_)
DigitsValue(s) ==
    IF s = <<>> THEN 0
    ELSE 10 * DigitsValue(SubSeq(s, 1, Len(s) - 1)) + DigitValue(s[Len(s)])

AllDigits(s) == s # <<>> /\ \A i \in 1..Len(s) : s[i] \in Digits

\* truncation towards zero of n / 10
Trunc10(n) == IF n >= 0 THEN n \div 10 ELSE -((-n) \div 10)

\* Python's int(x): [exc, v]
PyInt(x) ==
    CASE x.t = "int" -> [exc |-> "none", v |-> x.n]
      [] x.t = "bool" -> [exc |-> "none", v |-> x.n]
      [] x.t = "float" -> [exc |-> "none", v |-> Trunc10(x.n)]
      [] x.t = "str" ->
            IF AllDigits(x.s) THEN [exc |-> "none", v |-> DigitsValue(x.s)]
            ELSE IF Len(x.s) > 1 /\ x.s[1] = "-" /\ AllDigits(Tail(x.s))
                 THEN [exc |-> "none", v |-> -DigitsValue(Tail(x.s))]
            ELSE [exc |-> "ValueError", v |-> 0]
      [] OTHER -> [exc |-> "TypeError", v |-> 0]

\* request.data.get("quantity") is None
IsNone(x) == x.t \in {"missing", "null"}

(***************************************************************************)
(* Responses.                                                              *)
(***************************************************************************)
\* str(n) of a natural number: its decimal digits
DigitChar(d) == CASE d = 0 -> "0" [] d = 1 -> "1" [] d = 2 -> "2" [] d = 3 -> "3"
                  [] d = 4 -> "4" [] d = 5 -> "5" [] d = 6 -> "6" [] d = 7 -> "7"
                  [] d = 8 -> "8" [] OTHER -> "9"

RECURSIVE Str(_)
Str(n) == IF n < 0 THEN <<"-">> \o Str(-n)
          ELSE IF n < 10 THEN <<DigitChar(n)>>
          ELSE Str(n \div 10) \o <<DigitChar(n % 10)>>

\* the detail messages of purchase
DetailRequired == <<"Quantity is required.">>
DetailPositive == <<"Quantity must be a positive integer.">>
DetailInteger == <<"Quantity must be an integer.">>
DetailNotEnough(available) ==
    <<"Not enough stock. Only ">> \o Str(available) \o <<" available.">>
NoDetail == <<>>

\* the query parameters of GET /products/ as the URL carries them: name,
\* min_price, max_price, category and ordering are character sequences,
\* available and is_featured are words; an empty one is a parameter not
\* supplied
Query(name, min_price, max_price, category, available, is_featured, ordering) ==
    [name |-> name, min_price |-> min_price, max_price |-> max_price,
     category |-> category, available |-> available,
     is_featured |-> is_featured, ordering |-> ordering]

NoQuery == Query(<<>>, <<>>, <<>>, <<>>, "", "", <<>>)

\* a response, with the request it answers; body is a sequence of rows
Response(op, method, key, pk, query, status, body) ==
    [op |-> op, method |-> method, key |-> key, pk |-> pk, query |-> query,
     status |-> status, body |-> body]

NoResponse == Response("none", "GET", NoKey, 0, NoQuery, 0, <<>>)

(***************************************************************************)
(* Purchase workers.                                                       *)
(***************************************************************************)
Workers == DOMAIN req

\* pc: "idle", "loaded" (get_object() has returned product) or "done" (the
\* response status, detail, data is on its way).  overlaps: the workers
\* that held a loaded row of the same product when this one loaded its own.
Request(pc, key, pk, quantity, product, status, detail, data, overlaps) ==
    [pc |-> pc, key |-> key, pk |-> pk, quantity |-> quantity,
     product |-> product, status |-> status, detail |-> detail,
     data |-> data, overlaps |-> overlaps]

Idle == Request("idle", NoKey, 0, NoQuantity, NoProduct, 0, NoDetail,
                NoProduct, {})

(***************************************************************************)
(* Model validation and the constraints of the tables.                     *)
(***************************************************************************)
\* Product.name declared without unique=True
ProductNameTaken_Never(name, pk) == FALSE

\* unique=True on Product.name, seen from row pk (0: a row not yet inserted)
ProductNameTaken(name, pk) ==
    \E o \in DOMAIN products : o # pk /\ products[o].name = name

CategoryNameTaken(name, pk) ==
    \E o \in DOMAIN categories : o # pk /\ categories[o].name = name

\* the foreign key of Product.category
CategoryExists(c) == c = NoCategory \/ c \in DOMAIN categories

\* the stock column declared IntegerField: no minimum is validated
ValidField_NoMinimum(f, v, pk) ==
    CASE f = "name" -> v # <<>> /\ ~ProductNameTaken(v, pk)
      [] f = "category" -> CategoryExists(v)
      [] OTHER -> TRUE

\* ProductSerializer.is_valid for one field of the payload
ValidField(f, v, pk) ==
    CASE f = "name" -> v # <<>> /\ ~ProductNameTaken(v, pk)
      [] f = "stock_quantity" -> v >= 0
      [] f = "category" -> CategoryExists(v)
      [] OTHER -> TRUE

ValidProduct(d, pk) == \A f \in ProductFields : ValidField(f, d[f], pk)

(***************************************************************************)
(* Initial state: the tables as the migrations leave them.                 *)
(***************************************************************************)
Init ==
    /\ categories = <<>>
    /\ products = <<>>
    /\ nextCategoryId = 1
    /\ nextProductId = 1
    /\ now = 0
    /\ req = [w \in {1} |-> Idle]
    /\ resp = NoResponse

\* the same state with two purchase workers
InitRace ==
    /\ categories = <<>>
    /\ products = <<>>
    /\ nextCategoryId = 1
    /\ nextProductId = 1
    /\ now = 0
    /\ req = [w \in {1, 2} |-> Idle]
    /\ resp = NoResponse

(***************************************************************************)
(* Table operations.                                                       *)
(***************************************************************************)
Insert(table, pk, row) == [i \in DOMAIN table \cup {pk} |->
                              IF i = pk THEN row ELSE table[i]]

Delete(table, pk) == [i \in DOMAIN table \ {pk} |-> table[i]]

\* on_delete=models.DO_NOTHING with no constraint in the database
SetNull_DoNothing(table, pk) == table

\* on_delete=models.SET_NULL: the rows that referenced category pk
SetNull(table, pk) ==
    [i \in DOMAIN table |->
        IF table[i].category = pk
        THEN [table[i] EXCEPT !.category = NoCategory]
        ELSE table[i]]

(***************************************************************************)
(* CategoryViewSet (ModelViewSet): create, update, destroy.                *)
(***************************************************************************)
CategoryCreate(key, name) ==
    /\ resp = NoResponse
    /\ UNCHANGED <<products, nextProductId, now, req>>
    /\ IF ~has_permission("POST", key)
       THEN /\ resp' = Response("category-create", "POST", key, 0, NoQuery,
                                 HTTP_403_FORBIDDEN, <<>>)
            /\ UNCHANGED <<categories, nextCategoryId>>
       ELSE IF name = <<>> \/ CategoryNameTaken(name, 0)
       THEN /\ resp' = Response("category-create", "POST", key, 0, NoQuery,
                                 HTTP_400_BAD_REQUEST, <<>>)
            /\ UNCHANGED <<categories, nextCategoryId>>
       ELSE /\ nextCategoryId <= MaxCategories
            /\ categories' = Insert(categories, nextCategoryId, Category(name))
            /\ nextCategoryId' = nextCategoryId + 1
            /\ resp' = Response("category-create", "POST", key, nextCategoryId,
                                 NoQuery, HTTP_201_CREATED, <<Category(name)>>)

CategoryUpdate(key, pk, name) ==
    /\ resp = NoResponse
    /\ UNCHANGED <<products, nextCategoryId, nextProductId, now, req>>
    /\ IF ~has_permission("PUT", key)
       THEN /\ resp' = Response("category-update", "PUT", key, pk, NoQuery,
                                 HTTP_403_FORBIDDEN, <<>>)
            /\ UNCHANGED categories
       ELSE IF pk \notin DOMAIN categories
       THEN /\ resp' = Response("category-update", "PUT", key, pk, NoQuery,
                                 HTTP_404_NOT_FOUND, <<>>)
            /\ UNCHANGED categories
       ELSE IF name = <<>> \/ CategoryNameTaken(name, pk)
       THEN /\ resp' = Response("category-update", "PUT", key, pk, NoQuery,
                                 HTTP_400_BAD_REQUEST, <<>>)
            /\ UNCHANGED categories
       ELSE /\ categories' = [categories EXCEPT ![pk] = Category(name)]
            /\ resp' = Response("category-update", "PUT", key, pk, NoQuery,
                                 HTTP_200_OK, <<Category(name)>>)

CategoryDestroy(key, pk) ==
    /\ resp = NoResponse
    /\ UNCHANGED <<nextCategoryId, nextProductId, now, req>>
    /\ IF ~has_permission("DELETE", key)
       THEN /\ resp' = Response("category-destroy", "DELETE", key, pk, NoQuery,
                                 HTTP_403_FORBIDDEN, <<>>)
            /\ UNCHANGED <<categories, products>>
       ELSE IF pk \notin DOMAIN categories
       THEN /\ resp' = Response("category-destroy", "DELETE", key, pk, NoQuery,
                                 HTTP_404_NOT_FOUND, <<>>)
            /\ UNCHANGED <<categories, products>>
       ELSE /\ products' = SetNull(products, pk)
            /\ categories' = Delete(categories, pk)
            /\ resp' = Response("category-destroy", "DELETE", key, pk, NoQuery,
                                 HTTP_204_NO_CONTENT, <<>>)

(***************************************************************************)
(* ProductViewSet (ModelViewSet): create, update, partial_update, destroy. *)
(***************************************************************************)
\* d: the payload, a row without created_at (a missing name is <<>>)
ProductCreate(key, d) ==
    /\ resp = NoResponse
    /\ UNCHANGED <<categories, nextCategoryId, req>>
    /\ IF ~has_permission("POST", key)
       THEN /\ resp' = Response("product-create", "POST", key, 0, NoQuery,
                                 HTTP_403_FORBIDDEN, <<>>)
            /\ UNCHANGED <<products, nextProductId, now>>
       ELSE IF ~ValidProduct(d, 0)
       THEN /\ resp' = Response("product-create", "POST", key, 0, NoQuery,
                                 HTTP_400_BAD_REQUEST, <<>>)
            /\ UNCHANGED <<products, nextProductId, now>>
       ELSE /\ nextProductId <= MaxProducts
            /\ products' = Insert(products, nextProductId,
                                  [d EXCEPT !.created_at = now])
            /\ nextProductId' = nextProductId + 1
            /\ UNCHANGED now
            /\ resp' = Response("product-create", "POST", key, nextProductId,
                                 NoQuery, HTTP_201_CREATED,
                                 <<products'[nextProductId]>>)

\* PUT: every writable field is replaced
ProductUpdate(key, pk, d) ==
    /\ resp = NoResponse
    /\ UNCHANGED <<categories, nextCategoryId, nextProductId, now, req>>
    /\ IF ~has_permission("PUT", key)
       THEN /\ resp' = Response("product-update", "PUT", key, pk, NoQuery,
                                 HTTP_403_FORBIDDEN, <<>>)
            /\ UNCHANGED products
       ELSE IF pk \notin DOMAIN products
       THEN /\ resp' = Response("product-update", "PUT", key, pk, NoQuery,
                                 HTTP_404_NOT_FOUND, <<>>)
            /\ UNCHANGED products
       ELSE IF ~ValidProduct(d, pk)
       THEN /\ resp' = Response("product-update", "PUT", key, pk, NoQuery,
                                 HTTP_400_BAD_REQUEST, <<>>)
            /\ UNCHANGED products
       ELSE /\ products' = [products EXCEPT ![pk] =
                                [d EXCEPT !.created_at = products[pk].created_at]]
            /\ resp' = Response("product-update", "PUT", key, pk, NoQuery,
                                 HTTP_200_OK, <<products'[pk]>>)

\* PATCH of one field f to v
ProductPartialUpdate(key, pk, f, v) ==
    /\ resp = NoResponse
    /\ UNCHANGED <<categories, nextCategoryId, nextProductId, now, req>>
    /\ IF ~has_permission("PATCH", key)
       THEN /\ resp' = Response("product-partial-update", "PATCH", key, pk,
                                 NoQuery, HTTP_403_FORBIDDEN, <<>>)
            /\ UNCHANGED products
       ELSE IF pk \notin DOMAIN products
       THEN /\ resp' = Response("product-partial-update", "PATCH", key, pk,
                                 NoQuery, HTTP_404_NOT_FOUND, <<>>)
            /\ UNCHANGED products
       ELSE IF ~ValidField(f, v, pk)
       THEN /\ resp' = Response("product-partial-update", "PATCH", key, pk,
                                 NoQuery, HTTP_400_BAD_REQUEST, <<>>)
            /\ UNCHANGED products
       ELSE /\ products' = [products EXCEPT ![pk] = [@ EXCEPT ![f] = v]]
            /\ resp' = Response("product-partial-update", "PATCH", key, pk,
                                 NoQuery, HTTP_200_OK, <<products'[pk]>>)

ProductDestroy(key, pk) ==
    /\ resp = NoResponse
    /\ UNCHANGED <<categories, nextCategoryId, nextProductId, now, req>>
    /\ IF ~has_permission("DELETE", key)
       THEN /\ resp' = Response("product-destroy", "DELETE", key, pk, NoQuery,
                                 HTTP_403_FORBIDDEN, <<>>)
            /\ UNCHANGED products
       ELSE IF pk \notin DOMAIN products
       THEN /\ resp' = Response("product-destroy", "DELETE", key, pk, NoQuery,
                                 HTTP_404_NOT_FOUND, <<>>)
            /\ UNCHANGED products
       ELSE /\ products' = Delete(products, pk)
            /\ resp' = Response("product-destroy", "DELETE", key, pk, NoQuery,
                                 HTTP_204_NO_CONTENT, <<>>)

(***************************************************************************)
(* CreateModelMixin.create in its two steps, serializer.is_valid() and     *)
(* serializer.save(), with no transaction around them: other requests run  *)
(* between the validation of the name and the INSERT.                      *)
(***************************************************************************)
\* POST /products/: the gate, then ProductSerializer.is_valid(); the worker
\* holds the validated payload d (pk 0: no row yet)
ProductCreateValid(w, key, d) ==
    /\ req[w].pc = "idle"
    /\ UNCHANGED <<categories, products, nextCategoryId, nextProductId, now,
                   resp>>
    /\ IF ~has_permission("POST", key)
       THEN req' = [req EXCEPT ![w] =
                Request("done", key, 0, NoQuantity, d, HTTP_403_FORBIDDEN,
                        NoDetail, NoProduct, {})]
       ELSE IF ~ValidProduct(d, 0)
       THEN req' = [req EXCEPT ![w] =
                Request("done", key, 0, NoQuantity, d, HTTP_400_BAD_REQUEST,
                        NoDetail, NoProduct, {})]
       ELSE req' = [req EXCEPT ![w] =
                Request("product-valid", key, 0, NoQuantity, d, 0, NoDetail,
                        NoProduct, {})]

\* serializer.save(): the INSERT; the unique index and the foreign key of
\* the table raise IntegrityError, which reaches the client as a 500
ProductCreateSave(w) ==
    /\ req[w].pc = "product-valid"
    /\ UNCHANGED <<categories, nextCategoryId, now, resp>>
    /\ LET d == req[w].product IN
       IF ProductNameTaken(d.name, 0) \/ ~CategoryExists(d.category)
       THEN /\ req' = [req EXCEPT ![w].pc = "done",
                                  ![w].status = HTTP_500_INTERNAL_SERVER_ERROR]
            /\ UNCHANGED <<products, nextProductId>>
       ELSE /\ nextProductId <= MaxProducts
            /\ products' = Insert(products, nextProductId,
                                  [d EXCEPT !.created_at = now])
            /\ nextProductId' = nextProductId + 1
            /\ req' = [req EXCEPT ![w].pc = "done", ![w].pk = nextProductId,
                                  ![w].status = HTTP_201_CREATED,
                                  ![w].data = products'[nextProductId]]

\* POST /categories/: the gate, then CategorySerializer.is_valid(); the
\* worker holds the validated payload, a Category
CategoryCreateValid(w, key, name) ==
    /\ req[w].pc = "idle"
    /\ UNCHANGED <<categories, products, nextCategoryId, nextProductId, now,
                   resp>>
    /\ IF ~has_permission("POST", key)
       THEN req' = [req EXCEPT ![w] =
                Request("done", key, 0, NoQuantity, Category(name),
                        HTTP_403_FORBIDDEN, NoDetail, NoProduct, {})]
       ELSE IF name = <<>> \/ CategoryNameTaken(name, 0)
       THEN req' = [req EXCEPT ![w] =
                Request("done", key, 0, NoQuantity, Category(name),
                        HTTP_400_BAD_REQUEST, NoDetail, NoProduct, {})]
       ELSE req' = [req EXCEPT ![w] =
                Request("category-valid", key, 0, NoQuantity, Category(name),
                        0, NoDetail, NoProduct, {})]

CategoryCreateSave(w) ==
    /\ req[w].pc = "category-valid"
    /\ UNCHANGED <<products, nextProductId, now, resp>>
    /\ LET name == req[w].product.name IN
       IF CategoryNameTaken(name, 0)
       THEN /\ req' = [req EXCEPT ![w].pc = "done",
                                  ![w].status = HTTP_500_INTERNAL_SERVER_ERROR]
            /\ UNCHANGED <<categories, nextCategoryId>>
       ELSE /\ nextCategoryId <= MaxCategories
            /\ categories' = Insert(categories, nextCategoryId, Category(name))
            /\ nextCategoryId' = nextCategoryId + 1
            /\ req' = [req EXCEPT ![w].pc = "done", ![w].pk = nextCategoryId,
                                  ![w].status = HTTP_201_CREATED]

(***************************************************************************)
(* ProductViewSet.purchase.                                                *)
(***************************************************************************)
\* the gate, then product = self.get_object()
PurchaseLoad(w, key, pk, quantity) ==
    /\ req[w].pc = "idle"
    /\ UNCHANGED <<categories, products, nextCategoryId, nextProductId, now,
                   resp>>
    /\ IF ~has_permission("POST", key)
       THEN req' = [req EXCEPT ![w] =
                Request("done", key, pk, quantity, NoProduct,
                        HTTP_403_FORBIDDEN, NoDetail, NoProduct, {})]
       ELSE IF pk \notin DOMAIN products
       THEN req' = [req EXCEPT ![w] =
                Request("done", key, pk, quantity, NoProduct,
                        HTTP_404_NOT_FOUND, NoDetail, NoProduct, {})]
       ELSE req' = [req EXCEPT ![w] =
                Request("loaded", key, pk, quantity, products[pk], 0, NoDetail,
                        NoProduct,
                        {o \in Workers \ {w} :
                            req[o].pc = "loaded" /\ req[o].pk = pk})]

\* the response of a purchase that stops before product.save()
Reject(w, status, detail) ==
    /\ req' = [req EXCEPT ![w].pc = "done", ![w].status = status,
                          ![w].detail = detail]
    /\ UNCHANGED products

\* the stock check off by one: a purchase of one unit too many passes
InsufficientStock_OffByOne(product, quantity) ==
    product.stock_quantity + 1 < quantity

\* the stock check of purchase: product.stock_quantity < quantity
InsufficientStock(product, quantity) == product.stock_quantity < quantity

\* the decrement of one unit whatever the quantity
Decrease_One(product, quantity) ==
    [product EXCEPT !.stock_quantity = @ - 1]

\* product.stock_quantity -= quantity
Decrease(product, quantity) ==
    [product EXCEPT !.stock_quantity = @ - quantity]

\* Model.save() of a loaded instance: UPDATE of every column of row pk; an
\* INSERT of the instance when no row has that pk; IntegrityError from the
\* unique name or the category foreign key reaches the client as a 500
Save(w, product) ==
    LET pk == req[w].pk IN
    IF ProductNameTaken(product.name, pk) \/ ~CategoryExists(product.category)
    THEN Reject(w, HTTP_500_INTERNAL_SERVER_ERROR, NoDetail)
    ELSE IF pk \in DOMAIN products
    THEN /\ products' = [products EXCEPT ![pk] = product]
         /\ req' = [req EXCEPT ![w].pc = "done", ![w].status = HTTP_200_OK,
                               ![w].data = product]
    ELSE /\ products' = Insert(products, pk, [product EXCEPT !.created_at = now])
         /\ req' = [req EXCEPT ![w].pc = "done", ![w].status = HTTP_200_OK,
                               ![w].data = products'[pk]]

\* from request.data.get("quantity") to the response
PurchaseSave(w) ==
    /\ req[w].pc = "loaded"
    /\ UNCHANGED <<categories, nextCategoryId, nextProductId, now, resp>>
    /\ LET quantity == req[w].quantity
           product == req[w].product
       IN  IF IsNone(quantity)
           THEN Reject(w, HTTP_400_BAD_REQUEST, DetailRequired)
           ELSE IF PyInt(quantity).exc = "ValueError"
           THEN Reject(w, HTTP_400_BAD_REQUEST, DetailInteger)
           ELSE IF PyInt(quantity).exc = "TypeError"
           THEN Reject(w, HTTP_500_INTERNAL_SERVER_ERROR, NoDetail)
           ELSE IF PyInt(quantity).v <= 0
           THEN Reject(w, HTTP_400_BAD_REQUEST, DetailPositive)
           ELSE IF InsufficientStock(product, PyInt(quantity).v)
           THEN Reject(w, HTTP_400_BAD_REQUEST,
                       DetailNotEnough(product.stock_quantity))
           ELSE Save(w, Decrease(product, PyInt(quantity).v))

\* the response has left; the worker takes another request
PurchaseReturn(w) ==
    /\ req[w].pc = "done"
    /\ req' = [req EXCEPT ![w] = Idle]
    /\ UNCHANGED <<categories, products, nextCategoryId, nextProductId, now,
                   resp>>

(***************************************************************************)
(* GET /products/: ProductFilter, then OrderingFilter.                     *)
(***************************************************************************)
\* t occurs in s as a contiguous run
Contains(s, t) ==
    \E i \in 0..(Len(s) - Len(t)) : SubSeq(s, i + 1, i + Len(t)) = t

\* lookup_expr="icontains"
IContains(s, t) == Contains(Lower(s), Lower(t))

\* NullBooleanField: the widget's reading of the parameter
CleanBoolean(word) ==
    CASE word \in {"true", "True", "1"} -> "True"
      [] word \in {"false", "False", "0"} -> "False"
      [] OTHER -> "None"

\* a queryset is the set of primary keys it selects

\* the available filter written with stock_quantity__gte=0
filter_available_Gte(queryset, value) ==
    IF value
    THEN {pk \in queryset : products[pk].stock_quantity >= 0}
    ELSE {pk \in queryset : products[pk].stock_quantity = 0}

\* ProductFilter.filter_available(queryset, name, value)
filter_available(queryset, value) ==
    IF value
    THEN {pk \in queryset : products[pk].stock_quantity > 0}
    ELSE {pk \in queryset : products[pk].stock_quantity = 0}

\* the declared filters of ProductFilter, in declaration order
FilterNames ==
    <<"name", "min_price", "max_price", "category", "available", "is_featured">>

\* the filters with max_price declared lookup_expr="lt"
ApplyFilter_MaxExclusive(f, queryset, value) ==
    CASE f = "name" ->
            IF value = <<>> THEN queryset
            ELSE {pk \in queryset : IContains(products[pk].name, value)}
      [] f = "min_price" ->
            IF value = <<>> THEN queryset
            ELSE {pk \in queryset : products[pk].price >= DigitsValue(value)}
      [] f = "max_price" ->
            IF value = <<>> THEN queryset
            ELSE {pk \in queryset : products[pk].price < DigitsValue(value)}
      [] f = "category" ->
            IF value = <<>> THEN queryset
            ELSE {pk \in queryset : products[pk].category = DigitsValue(value)}
      [] f = "available" ->
            IF CleanBoolean(value) = "None" THEN queryset
            ELSE filter_available(queryset, CleanBoolean(value) = "True")
      [] f = "is_featured" ->
            IF CleanBoolean(value) = "None" THEN queryset
            ELSE {pk \in queryset :
                    products[pk].is_featured = (CleanBoolean(value) = "True")}

\* Filter.filter(qs, value) of the filter declared as f: an empty value
\* leaves the queryset as it is
ApplyFilter(f, queryset, value) ==
    CASE f = "name" ->
            IF value = <<>> THEN queryset
            ELSE {pk \in queryset : IContains(products[pk].name, value)}
      [] f = "min_price" ->
            IF value = <<>> THEN queryset
            ELSE {pk \in queryset : products[pk].price >= DigitsValue(value)}
      [] f = "max_price" ->
            IF value = <<>> THEN queryset
            ELSE {pk \in queryset : products[pk].price <= DigitsValue(value)}
      [] f = "category" ->
            IF value = <<>> THEN queryset
            ELSE {pk \in queryset : products[pk].category = DigitsValue(value)}
      [] f = "available" ->
            IF CleanBoolean(value) = "None" THEN queryset
            ELSE filter_available(queryset, CleanBoolean(value) = "True")
      [] f = "is_featured" ->
            IF CleanBoolean(value) = "None" THEN queryset
            ELSE {pk \in queryset :
                    products[pk].is_featured = (CleanBoolean(value) = "True")}

\* FilterSet.filter_queryset: the first n declared filters, one after another
RECURSIVE FilterQueryset(_, _, _)
FilterQueryset(queryset, query, n) ==
    IF n = 0 THEN queryset
    ELSE ApplyFilter(FilterNames[n], FilterQueryset(queryset, query, n - 1),
                     query[FilterNames[n]])

\* ProductViewSet.ordering_fields
ordering_fields == {"name", "price", "stock_quantity", "created_at"}

\* Product.Meta.ordering
MetaOrdering == <<"name">>

\* str.lstrip("-")
RECURSIVE LStrip(_)
LStrip(term) ==
    IF term # <<>> /\ term[1] = "-" THEN LStrip(Tail(term)) ELSE term

\* OrderingFilter.get_ordering: the term of the request when its field is
\* one of ordering_fields, else the model's default ordering
GetOrdering(term) ==
    IF term # <<>> /\ Len(LStrip(term)) = 1 /\ LStrip(term)[1] \in ordering_fields
    THEN term
    ELSE MetaOrdering

\* an ordering that drops the "-" of its term
Descending_Never(term) == FALSE

\* order_by(term): descending when the term starts with "-"
Descending(term) == term[1] = "-"

OrderField(term) == term[Len(term)]

\* a < b in the binary collation of a text column
RECURSIVE TextLess(_, _)
TextLess(a, b) ==
    IF b = <<>> THEN FALSE
    ELSE IF a = <<>> THEN TRUE
    ELSE IF Code(a[1]) # Code(b[1]) THEN Code(a[1]) < Code(b[1])
    ELSE TextLess(Tail(a), Tail(b))

KeyLess(field, r1, r2) ==
    IF field = "name" THEN TextLess(r1.name, r2.name)
    ELSE r1[field] < r2[field]

\* row r1 sorts strictly before row r2 under ORDER BY term
Before(term, r1, r2) ==
    IF Descending(term)
    THEN KeyLess(OrderField(term), r2, r1)
    ELSE KeyLess(OrderField(term), r1, r2)

\* the orders in which a scan may deliver the rows of a queryset
ScanOrders(queryset) ==
    {scan \in [1..Cardinality(queryset) -> queryset] :
        \A i, j \in DOMAIN scan : i # j => scan[i] # scan[j]}

\* ORDER BY: the sort of the scanned rows, rows with equal keys in scan order
RECURSIVE OrderBy(_, _)
OrderBy(scan, term) ==
    IF scan = <<>> THEN <<>>
    ELSE LET n == Len(scan)
             sorted == OrderBy(SubSeq(scan, 1, n - 1), term)
             later == {j \in 1..(n - 1) :
                          Before(term, products[scan[n]], products[sorted[j]])}
             at == IF later = {} THEN n
                   ELSE CHOOSE j \in later : \A k \in later : j <= k
         IN  SubSeq(sorted, 1, at - 1) \o <<scan[n]>> \o SubSeq(sorted, at, n - 1)

\* ProductSerializer: the representation of row pk
ProductSerializer(pk) ==
    [id |-> pk, name |-> products[pk].name, price |-> products[pk].price,
     stock_quantity |-> products[pk].stock_quantity,
     is_featured |-> products[pk].is_featured,
     category |-> products[pk].category,
     created_at |-> products[pk].created_at]

\* ProductViewSet.list: filter_queryset(get_queryset()), serialized
ProductList(key, query) ==
    /\ resp = NoResponse
    /\ IF ~has_permission("GET", key)
       THEN resp' = Response("product-list", "GET", key, 0, query,
                             HTTP_403_FORBIDDEN, <<>>)
       ELSE \E scan \in ScanOrders(FilterQueryset(DOMAIN products, query,
                                                  Len(FilterNames))) :
              LET rows == OrderBy(scan, GetOrdering(query.ordering))
              IN  resp' = Response("product-list", "GET", key, 0, query,
                                   HTTP_200_OK,
                                   [i \in DOMAIN rows |->
                                       ProductSerializer(rows[i])])
    /\ UNCHANGED <<categories, products, nextCategoryId, nextProductId, now,
                   req>>

\* the response of a one-step handler reaches its client
Deliver ==
    /\ resp # NoResponse
    /\ resp' = NoResponse
    /\ UNCHANGED <<categories, products, nextCategoryId, nextProductId, now,
                   req>>

\* time passes
Tick ==
    /\ now < MaxClock
    /\ now' = now + 1
    /\ UNCHANGED <<categories, products, nextCategoryId, nextProductId, req,
                   resp>>

(***************************************************************************)
(* The requests of the clients.                                            *)
(***************************************************************************)
ProductKeys == 1..MaxProducts
CategoryKeys == 1..MaxCategories

\* bodies of POST /products/{id}/purchase/
IntQuantities == {Quantity("int", n, <<>>) : n \in 1..MaxStock}

Quantities ==
    {Quantity("int", n, <<>>) : n \in -1..(MaxStock + 1)}
    \cup {Quantity("missing", 0, <<>>), Quantity("null", 0, <<>>),
          Quantity("float", 15, <<>>), Quantity("bool", 1, <<>>),
          Quantity("list", 0, <<>>),
          Quantity("str", 0, <<"2">>), Quantity("str", 0, <<"a">>),
          Quantity("str", 0, <<"1", ".", "5">>)}

(***************************************************************************)
(* Spec: one purchase at a time, with every kind of body and credential,   *)
(* while authenticated clients create, patch and delete the product.       *)
(***************************************************************************)
PurchasePayloads ==
    {Product(<<"a">>, 1, stock_quantity, FALSE, NoCategory, 0) :
        stock_quantity \in {0, MaxStock}}

PurchasePatches(f) ==
    CASE f = "name" -> {<<"a">>, <<"b">>}
      [] f = "stock_quantity" -> 0..MaxStock

Next ==
    \/ \E d \in PurchasePayloads :
          nextProductId <= FewRows /\ ProductCreate("key1", d)
    \/ \E pk \in ProductKeys, f \in {"name", "stock_quantity"} :
          \E v \in PurchasePatches(f) : ProductPartialUpdate("key1", pk, f, v)
    \/ \E pk \in ProductKeys : ProductDestroy("key1", pk)
    \/ \E w \in Workers, key \in RequestKeys, pk \in ProductKeys,
          quantity \in Quantities : PurchaseLoad(w, key, pk, quantity)
    \/ \E w \in Workers : PurchaseSave(w)
    \/ \E w \in Workers : PurchaseReturn(w)
    \/ Deliver

Spec == Init /\ [][Next]_vars

(***************************************************************************)
(* SpecRace: two purchases in flight, stock written by create, PATCH,      *)
(* delete and purchase, and the availability listing.                      *)
(***************************************************************************)
RacePayloads ==
    {Product(<<"a">>, 1, stock_quantity, FALSE, NoCategory, 0) :
        stock_quantity \in {-1, 0, MaxStock}}

AvailableQueries ==
    {Query(<<>>, <<>>, <<>>, <<>>, available, "", <<>>) :
        available \in {"", "true", "false"}}

NextRace ==
    \/ \E d \in RacePayloads :
          nextProductId <= FewRows /\ ProductCreate("key1", d)
    \/ \E pk \in ProductKeys, v \in -1..MaxStock :
          ProductPartialUpdate("key1", pk, "stock_quantity", v)
    \/ \E pk \in ProductKeys : ProductDestroy("key1", pk)
    \/ \E w \in Workers, pk \in ProductKeys, quantity \in IntQuantities :
          PurchaseLoad(w, "key1", pk, quantity)
    \/ \E w \in Workers : PurchaseSave(w)
    \/ \E w \in Workers : PurchaseReturn(w)
    \/ \E query \in AvailableQueries : ProductList(NoKey, query)
    \/ Deliver

SpecRace == InitRace /\ [][NextRace]_vars

(***************************************************************************)
(* SpecGate: every request of the API with a valid key, a wrong key and no *)
(* key.                                                                    *)
(***************************************************************************)
GatePayloads == {Product(<<"a">>, 1, 1, FALSE, NoCategory, 0)}

NextGate ==
    \/ \E key \in RequestKeys :
          nextCategoryId <= FewRows /\ CategoryCreate(key, <<"A">>)
    \/ \E key \in RequestKeys, pk \in CategoryKeys :
          CategoryUpdate(key, pk, <<"B">>)
    \/ \E key \in RequestKeys, pk \in CategoryKeys : CategoryDestroy(key, pk)
    \/ \E key \in RequestKeys, d \in GatePayloads :
          nextProductId <= FewRows /\ ProductCreate(key, d)
    \/ \E key \in RequestKeys, pk \in ProductKeys :
          ProductUpdate(key, pk, Product(<<"b">>, 1, 1, FALSE, NoCategory, 0))
    \/ \E key \in RequestKeys, pk \in ProductKeys :
          ProductPartialUpdate(key, pk, "category", 1)
    \/ \E key \in RequestKeys, pk \in ProductKeys : ProductDestroy(key, pk)
    \/ \E w \in Workers, key \in RequestKeys, pk \in ProductKeys :
          PurchaseLoad(w, key, pk, Quantity("int", 1, <<>>))
    \/ \E w \in Workers : PurchaseSave(w)
    \/ \E w \in Workers : PurchaseReturn(w)
    \/ \E key \in RequestKeys : ProductList(key, NoQuery)
    \/ Deliver

SpecGate == Init /\ [][NextGate]_vars

(***************************************************************************)
(* SpecStore: the two tables under the writes of authenticated clients,    *)
(* with a purchase in flight.                                              *)
(***************************************************************************)
CategoryNames == {<<"A">>, <<"B">>}

StorePayloads ==
    {Product(name, 1, 1, FALSE, category, 0) :
        name \in {<<"a">>, <<"b">>},
        category \in {NoCategory} \cup CategoryKeys}

NextStore ==
    \/ \E name \in CategoryNames : CategoryCreate("key1", name)
    \/ \E pk \in CategoryKeys, name \in CategoryNames :
          CategoryUpdate("key1", pk, name)
    \/ \E pk \in CategoryKeys : CategoryDestroy("key1", pk)
    \/ \E d \in StorePayloads :
          nextProductId <= StoreRows /\ ProductCreate("key1", d)
    \/ \E pk \in 1..StoreRows, d \in StorePayloads :
          ProductUpdate("key1", pk, d)
    \/ \E pk \in 1..StoreRows, v \in {NoCategory} \cup CategoryKeys :
          ProductPartialUpdate("key1", pk, "category", v)
    \/ \E pk \in 1..StoreRows : ProductDestroy("key1", pk)
    \/ \E w \in Workers, pk \in 1..FewRows :
          PurchaseLoad(w, "key1", pk, Quantity("int", 1, <<>>))
    \/ \E w \in Workers : PurchaseSave(w)
    \/ \E w \in Workers : PurchaseReturn(w)
    \/ Deliver

SpecStore == Init /\ [][NextStore]_vars

(***************************************************************************)
(* SpecList: GET /products/ with filters and an ordering, over the         *)
(* catalogs that creating products at different times leaves.              *)
(***************************************************************************)
ListPayloads ==
    {Product(<<"A", "b">>, 1, 0, TRUE, 1, 0),
     Product(<<"a">>, 2, 2, FALSE, NoCategory, 0),
     Product(<<"B">>, 2, 1, TRUE, 1, 0),
     Product(<<"b", "a">>, 3, 1, FALSE, NoCategory, 0)}

FilterQueries ==
    {Query(name, min_price, max_price, category, available, is_featured, <<>>) :
        name \in {<<>>, <<"a">>},
        min_price \in {<<>>, <<"2">>},
        max_price \in {<<>>, <<"2">>},
        category \in {<<>>, <<"1">>},
        available \in {"", "true", "false"},
        is_featured \in {"", "true", "false"}}

OrderingTerms ==
    {<<f>> : f \in ordering_fields} \cup {<<"-", f>> : f \in ordering_fields}
    \cup {<<"updated_at">>, <<"-", "id">>}

OrderingQueries ==
    {Query(<<>>, <<>>, <<>>, <<>>, available, "", ordering) :
        available \in {"", "true"}, ordering \in OrderingTerms}

NextList ==
    \/ nextCategoryId <= FewRows /\ CategoryCreate("key1", <<"A">>)
    \/ \E d \in ListPayloads : ProductCreate("key1", d)
    \/ Tick
    \/ \E query \in FilterQueries \cup OrderingQueries :
          ProductList(NoKey, query)
    \/ Deliver

SpecList == Init /\ [][NextList]_vars

(***************************************************************************)
(* SpecUnique: the names of the two tables, with a create or a purchase in *)
(* flight while other clients create, rename and delete.                   *)
(***************************************************************************)
UniquePayloads ==
    {Product(name, 1, 1, FALSE, NoCategory, 0) : name \in {<<"a">>, <<"b">>}}

NextUnique ==
    \/ \E w \in Workers, d \in UniquePayloads :
          ProductCreateValid(w, "key1", d)
    \/ \E w \in Workers : nextProductId <= StoreRows /\ ProductCreateSave(w)
    \/ \E w \in Workers, name \in CategoryNames :
          CategoryCreateValid(w, "key1", name)
    \/ \E w \in Workers : CategoryCreateSave(w)
    \/ \E d \in UniquePayloads :
          nextProductId <= StoreRows /\ ProductCreate("key1", d)
    \/ \E name \in CategoryNames : CategoryCreate("key1", name)
    \/ \E pk \in 1..StoreRows, d \in UniquePayloads :
          ProductUpdate("key1", pk, d)
    \/ \E pk \in 1..StoreRows, name \in CategoryNames :
          CategoryUpdate("key1", pk, name)
    \/ \E pk \in 1..FewRows : ProductDestroy("key1", pk)
    \/ \E w \in Workers, pk \in 1..FewRows :
          PurchaseLoad(w, "key1", pk, Quantity("int", 1, <<>>))
    \/ \E w \in Workers : PurchaseSave(w)
    \/ \E w \in Workers : PurchaseReturn(w)
    \/ Deliver

SpecUnique == Init /\ [][NextUnique]_vars

(***************************************************************************)
(* SpecSold: two purchases in flight on a product that nothing else writes *)
(* once it is created.                                                     *)
(***************************************************************************)
SoldPayloads == {Product(<<"a">>, 1, MaxStock, FALSE, NoCategory, 0)}

NextSold ==
    \/ \E d \in SoldPayloads :
          nextProductId <= FewRows /\ ProductCreate("key1", d)
    \/ \E w \in Workers, pk \in ProductKeys, quantity \in IntQuantities :
          PurchaseLoad(w, "key1", pk, quantity)
    \/ \E w \in Workers : PurchaseSave(w)
    \/ \E w \in Workers : PurchaseReturn(w)
    \/ Deliver

SpecSold == InitRace /\ [][NextSold]_vars

(***************************************************************************)
(* Properties.                                                             *)
(***************************************************************************)
\* worker w completes its purchase in this step
Completes(w) == req[w].pc = "loaded" /\ req'[w].pc = "done"

\* worker w has answered a purchase that passed the gate and found its row
Answered(w) ==
    /\ req[w].pc = "done"
    /\ req[w].status \notin {HTTP_403_FORBIDDEN, HTTP_404_NOT_FOUND}

\* the body carries a JSON integer
IsInt(quantity) == quantity.t = "int"

\* the number a "Not enough stock" detail states, -1 for another detail
Available(detail) ==
    IF /\ Len(detail) >= 3
       /\ detail[1] = "Not enough stock. Only "
       /\ detail[Len(detail)] = " available."
       /\ AllDigits(SubSeq(detail, 2, Len(detail) - 1))
    THEN DigitsValue(SubSeq(detail, 2, Len(detail) - 1))
    ELSE -1

\* C1: in every reachable state, whatever the interleaving of creates,
\* updates, deletes and purchases (two of them in flight on one product),
\* every product's stock_quantity is an integer >= 0.
C1_StockNeverNegative ==
    \A pk \in DOMAIN products : products[pk].stock_quantity \in Nat

\* two purchases that overlapped on one product have both been saved, and a
\* negative stock has been refused
C1_Witness ==
    /\ \E w \in Workers, o \in Workers :
          /\ w # o
          /\ req[w].pc = "done" /\ req[w].status = HTTP_200_OK
          /\ req[o].pc = "done" /\ req[o].status = HTTP_200_OK
          /\ req[w].pk = req[o].pk
          /\ o \in req[w].overlaps
          /\ req[w].pk \in DOMAIN products
          /\ products[req[w].pk].stock_quantity = 0

\* C2: two concurrent purchases of q1 and q2 on a product with stock s,
\* q1 <= s, q2 <= s and q1 + q2 > s, never both return 200.
C2_NeverBothSucceed ==
    \A w \in Workers, o \in Workers :
        ~ /\ w # o
          /\ req[w].pc = "done" /\ req[o].pc = "done"
          /\ req[w].pk = req[o].pk
          /\ o \in req[w].overlaps
          /\ req[w].product.stock_quantity = req[o].product.stock_quantity
          /\ IsInt(req[w].quantity) /\ IsInt(req[o].quantity)
          /\ req[w].quantity.n <= req[w].product.stock_quantity
          /\ req[o].quantity.n <= req[o].product.stock_quantity
          /\ req[w].quantity.n + req[o].quantity.n
                > req[w].product.stock_quantity
          /\ req[w].status = HTTP_200_OK
          /\ req[o].status = HTTP_200_OK

\* C3: a purchase of an integer quantity q > s, s the stock of the product
\* as the request read it (s = 0 included), is answered 400 with a detail
\* that states s as the available quantity, and writes nothing: the stock
\* of the product is after it what it was before.
C3_InsufficientStockRejected ==
    [][\A w \in Workers :
          (/\ Completes(w)
           /\ IsInt(req[w].quantity)
           /\ req[w].quantity.n > req[w].product.stock_quantity)
          => /\ req'[w].status = HTTP_400_BAD_REQUEST
             /\ Available(req'[w].detail) = req[w].product.stock_quantity
             /\ products' = products]_vars

\* a purchase of more than the stock has been answered, on a product with
\* stock left and on one with none
C3_Witness ==
    \E w \in Workers :
        /\ Answered(w)
        /\ IsInt(req[w].quantity)
        /\ req[w].quantity.n > req[w].product.stock_quantity
        /\ req[w].product.stock_quantity > 0
        /\ Available(req[w].detail) = req[w].product.stock_quantity
        /\ req[w].pk \in DOMAIN products
        /\ products[req[w].pk] = req[w].product

\* C4: a purchase of an integer quantity q, 1 <= q <= s, on a product with
\* stock s, with no write to the row between its read and its save, is
\* answered 200, leaves s - q as the stock of the row, and states that stock
\* in its body; and a purchase reads the row as the last write left it, so
\* the next purchase is checked against s - q.
C4_PurchaseDecreasesStock ==
    [][\A w \in Workers :
          /\ (/\ Completes(w)
               /\ IsInt(req[w].quantity)
               /\ req[w].quantity.n >= 1
               /\ req[w].quantity.n <= req[w].product.stock_quantity
               /\ req[w].pk \in DOMAIN products
               /\ products[req[w].pk] = req[w].product)
              => /\ req'[w].status = HTTP_200_OK
                 /\ products'[req[w].pk].stock_quantity
                       = req[w].product.stock_quantity - req[w].quantity.n
                 /\ req'[w].data.stock_quantity
                       = products'[req[w].pk].stock_quantity
          /\ (req[w].pc = "idle" /\ req'[w].pc = "loaded")
              => req'[w].product = products[req'[w].pk]]_vars

\* a purchase of less than the whole stock has been answered 200 and the row
\* holds what its body states
C4_Witness ==
    \E w \in Workers :
        /\ req[w].pc = "done"
        /\ req[w].status = HTTP_200_OK
        /\ IsInt(req[w].quantity)
        /\ req[w].quantity.n < req[w].product.stock_quantity
        /\ req[w].pk \in DOMAIN products
        /\ products[req[w].pk] = req[w].data
        /\ req[w].data.stock_quantity
              = req[w].product.stock_quantity - req[w].quantity.n

\* the body of a JSON string that writes an integer
IsIntegerText(s) ==
    AllDigits(s) \/ (Len(s) > 1 /\ s[1] = "-" /\ AllDigits(Tail(s)))

\* the constraint of section 4.2 a quantity violates: "missing",
\* "non-integer", "non-positive", or "none"
Violated(quantity) ==
    CASE quantity.t \in {"missing", "null"} -> "missing"
      [] quantity.t = "float" /\ quantity.n % 10 # 0 -> "non-integer"
      [] quantity.t = "str" /\ ~IsIntegerText(quantity.s) -> "non-integer"
      [] quantity.t = "list" -> "non-integer"
      [] quantity.t = "int" /\ quantity.n <= 0 -> "non-positive"
      [] OTHER -> "none"

DetailOf(constraint) ==
    CASE constraint = "missing" -> DetailRequired
      [] constraint = "non-integer" -> DetailInteger
      [] constraint = "non-positive" -> DetailPositive
      [] OTHER -> NoDetail

\* C5: a purchase on an existing product whose quantity is missing, is not
\* an integer (a non-numeric string, a fractional number, a non-scalar) or
\* is an integer <= 0 is answered 400 with the detail of the constraint it
\* violates, and the stock of the product is unchanged.
C5_InvalidQuantityRejected ==
    \A w \in Workers :
        (Answered(w) /\ Violated(req[w].quantity) # "none")
        => /\ req[w].status = HTTP_400_BAD_REQUEST
           /\ req[w].detail = DetailOf(Violated(req[w].quantity))

\* the tables and their counters
store == <<categories, products, nextCategoryId, nextProductId>>

\* a one-step handler answers in this step
Answers == resp = NoResponse /\ resp' # NoResponse

\* C6: every write request on products (create, PUT, PATCH, DELETE,
\* purchase) that carries no issued API key is answered 403 and leaves both
\* tables as they were, while a read request passes the gate with or
\* without a key.
C6_WritesNeedAPIKey ==
    [][/\ (/\ Answers
            /\ resp'.method \notin {"GET", "HEAD", "OPTIONS"}
            /\ resp'.key \notin IssuedKeys)
           => (resp'.status = HTTP_403_FORBIDDEN /\ UNCHANGED store)
       /\ \A w \in Workers :
             (/\ req[w].pc = "idle" /\ req'[w].pc # "idle"
              /\ req'[w].key \notin IssuedKeys)
             => /\ req'[w].pc = "done"
                /\ req'[w].status = HTTP_403_FORBIDDEN
                /\ UNCHANGED store
       /\ (Answers /\ resp'.method \in {"GET", "HEAD", "OPTIONS"})
           => resp'.status = HTTP_200_OK
       /\ \A method \in {"GET", "HEAD", "OPTIONS"}, key \in RequestKeys :
             has_permission(method, key)]_vars

\* a DELETE and a purchase of an existing product, the one with a wrong key
\* and the other with none, have been answered 403, and the product is there
C6_Witness ==
    /\ resp.op = "product-destroy"
    /\ resp.key = "bogus"
    /\ resp.status = HTTP_403_FORBIDDEN
    /\ resp.pk \in DOMAIN products
    /\ \E w \in Workers :
          /\ req[w].pc = "done"
          /\ req[w].key = NoKey
          /\ req[w].status = HTTP_403_FORBIDDEN
          /\ req[w].pk = resp.pk

\* C10: deleting a category deletes no product and empties the category
\* reference of exactly the products that referenced it; and in every
\* reachable state the category reference of every product is empty or
\* the id of an existing category.
C10_CategoryDeleteSetsNull ==
    /\ [](\A pk \in DOMAIN products :
            \/ products[pk].category = NoCategory
            \/ products[pk].category \in DOMAIN categories)
    /\ [][(/\ Answers
            /\ resp'.op = "category-destroy"
            /\ resp'.status = HTTP_204_NO_CONTENT)
           => /\ resp'.pk \notin DOMAIN categories'
              /\ DOMAIN products' = DOMAIN products
              /\ \A pk \in DOMAIN products :
                    products'[pk] =
                        IF products[pk].category = resp'.pk
                        THEN [products[pk] EXCEPT !.category = NoCategory]
                        ELSE products[pk]]_vars

\* a category has been deleted that one product referenced while another
\* product references the category that is left
C10_Witness ==
    /\ resp.op = "category-destroy"
    /\ resp.status = HTTP_204_NO_CONTENT
    /\ \E pk \in DOMAIN products, o \in DOMAIN products :
          /\ products[pk].category = NoCategory
          /\ products[o].category \in DOMAIN categories
    /\ \E w \in Workers :
          /\ req[w].pc = "loaded"
          /\ req[w].product.category = resp.pk

\* the ids of the rows of a response body
Ids(body) == {body[i].id : i \in DOMAIN body}

\* a list request has been answered 200
Listed == resp.op = "product-list" /\ resp.status = HTTP_200_OK

\* two characters that differ at most in case
SameLetter(a, b) ==
    \/ a = b
    \/ {a, b} \in {{"A", "a"}, {"B", "b"}}

\* row satisfies every filter that query supplies
Matches(row, query) ==
    /\ \/ query.name = <<>>
       \/ \E i \in 1..Len(row.name) :
             /\ i + Len(query.name) - 1 <= Len(row.name)
             /\ \A j \in 1..Len(query.name) :
                   SameLetter(row.name[i + j - 1], query.name[j])
    /\ query.min_price = <<>> \/ row.price >= DigitsValue(query.min_price)
    /\ query.max_price = <<>> \/ row.price <= DigitsValue(query.max_price)
    /\ query.category = <<>> \/ row.category = DigitsValue(query.category)
    /\ query.available = "true" => row.stock_quantity > 0
    /\ query.available = "false" => row.stock_quantity = 0
    /\ query.is_featured = "true" => row.is_featured
    /\ query.is_featured = "false" => ~row.is_featured

\* C7: filtering is conjunctive: the products a list request returns are
\* exactly the products that satisfy every filter it supplies (name:
\* substring whatever the case; min_price, max_price: inclusive bounds;
\* category: the id; is_featured, available: the flag), each once and as
\* the table holds it.
C7_FilteringIsConjunctive ==
    Listed =>
        /\ Ids(resp.body) =
              {pk \in DOMAIN products : Matches(products[pk], resp.query)}
        /\ Len(resp.body) = Cardinality(Ids(resp.body))
        /\ \A i \in DOMAIN resp.body :
              resp.body[i] = ProductSerializer(resp.body[i].id)

\* a list with a name and both price bounds has returned one product of a
\* catalog of three
C7_Witness ==
    /\ Listed
    /\ resp.query.name # <<>>
    /\ resp.query.min_price # <<>>
    /\ resp.query.max_price # <<>>
    /\ Len(resp.body) = 1
    /\ Cardinality(DOMAIN products) = 3

\* the query that asks for available = word and nothing else
AvailableQuery(word) == Query(<<>>, <<>>, <<>>, <<>>, word, "", <<>>)

\* C8: in every reachable state of the table the available filter
\* partitions the products: available=true selects exactly the products
\* with stock_quantity > 0, available=false exactly those with
\* stock_quantity = 0, the two are disjoint and together they are every
\* product; and a list request with available=true or available=false is
\* answered with exactly those products.
C8_AvailablePartitions ==
    /\ [](LET all == DOMAIN products
              yes == FilterQueryset(all, AvailableQuery("true"), Len(FilterNames))
              no == FilterQueryset(all, AvailableQuery("false"), Len(FilterNames))
          IN  /\ yes = {pk \in all : products[pk].stock_quantity > 0}
              /\ no = {pk \in all : products[pk].stock_quantity = 0}
              /\ yes \cap no = {}
              /\ yes \cup no = all)
    /\ [][(Answers /\ resp'.op = "product-list")
           => /\ resp'.status = HTTP_200_OK
              /\ resp'.query.available = "true" =>
                    Ids(resp'.body) =
                        {pk \in DOMAIN products :
                            products[pk].stock_quantity > 0}
              /\ resp'.query.available = "false" =>
                    Ids(resp'.body) =
                        {pk \in DOMAIN products :
                            products[pk].stock_quantity = 0}]_vars

\* the product that two overlapping purchases have emptied is listed as not
\* available
C8_Witness ==
    /\ Listed
    /\ resp.query.available = "false"
    /\ Len(resp.body) = 1
    /\ \E w \in Workers :
          /\ req[w].pc = "done"
          /\ req[w].status = HTTP_200_OK
          /\ req[w].overlaps # {}
          /\ req[w].data.stock_quantity = 0
          /\ req[w].pk = resp.body[1].id

\* body is sorted on field: no row is followed by a row of a smaller key
NonDecreasing(body, field) ==
    \A i \in DOMAIN body, j \in DOMAIN body :
        i < j => ~KeyLess(field, body[j], body[i])

NonIncreasing(body, field) ==
    \A i \in DOMAIN body, j \in DOMAIN body :
        i < j => ~KeyLess(field, body[i], body[j])

\* C9: a list request with ordering=k, k one of name, price,
\* stock_quantity, created_at, returns a sequence non-decreasing on k, with
\* ordering=-k one non-increasing on k, and with no ordering or one that is
\* not recognized the products ascending by name; and the ordering changes
\* nothing in which products are returned.
C9_OrderingSorts ==
    Listed =>
        LET ordering == resp.query.ordering IN
        /\ \A k \in {"name", "price", "stock_quantity", "created_at"} :
              /\ ordering = <<k>> => NonDecreasing(resp.body, k)
              /\ ordering = <<"-", k>> => NonIncreasing(resp.body, k)
        /\ (\A k \in {"name", "price", "stock_quantity", "created_at"} :
              ordering # <<k>> /\ ordering # <<"-", k>>)
            => \A i \in DOMAIN resp.body, j \in DOMAIN resp.body :
                  i < j => TextLess(resp.body[i].name, resp.body[j].name)
        /\ Ids(resp.body) =
              {pk \in DOMAIN products :
                  Matches(products[pk], [resp.query EXCEPT !.ordering = <<>>])}
        /\ Len(resp.body) = Cardinality(Ids(resp.body))

\* three products, two of them of one price, have been returned by price
\* descending
C9_Witness ==
    /\ Listed
    /\ resp.query.ordering = <<"-", "price">>
    /\ Len(resp.body) = 3
    /\ resp.body[1].price > resp.body[2].price
    /\ resp.body[2].price = resp.body[3].price

\* the names of a table are pairwise different
UniqueNames(table) ==
    \A pk \in DOMAIN table, o \in DOMAIN table :
        pk # o => table[pk].name # table[o].name

\* the payload a worker holds is a Category
IsCategory(row) == DOMAIN row = {"name"}

\* C11: in every reachable state no two products share a name and no two
\* categories share a name; a create or update whose name is that of another
\* record of the same table, existing when the request is validated, is
\* answered 400 and leaves the store unchanged.
C11_NamesUnique ==
    /\ [](UniqueNames(products) /\ UniqueNames(categories))
    /\ [][\A w \in Workers :
            (/\ req[w].pc = "idle" /\ req'[w].pc # "idle"
             /\ req'[w].pk = 0
             /\ IF IsCategory(req'[w].product)
                THEN CategoryNameTaken(req'[w].product.name, 0)
                ELSE ProductNameTaken(req'[w].product.name, 0))
            => /\ req'[w].pc = "done"
               /\ req'[w].status = HTTP_400_BAD_REQUEST
               /\ UNCHANGED store]_vars
    /\ [][\A pk \in 1..StoreRows, d \in UniquePayloads :
            /\ (/\ ProductUpdate("key1", pk, d)
                 /\ pk \in DOMAIN products
                 /\ ProductNameTaken(d.name, pk))
                => (resp'.status = HTTP_400_BAD_REQUEST /\ UNCHANGED store)
            /\ (ProductCreate("key1", d) /\ ProductNameTaken(d.name, 0))
                => (resp'.status = HTTP_400_BAD_REQUEST /\ UNCHANGED store)]_vars
    /\ [][\A pk \in 1..StoreRows, name \in CategoryNames :
            /\ (/\ CategoryUpdate("key1", pk, name)
                 /\ pk \in DOMAIN categories
                 /\ CategoryNameTaken(name, pk))
                => (resp'.status = HTTP_400_BAD_REQUEST /\ UNCHANGED store)
            /\ (CategoryCreate("key1", name) /\ CategoryNameTaken(name, 0))
                => (resp'.status = HTTP_400_BAD_REQUEST /\ UNCHANGED store)]_vars

\* a create of a product has been answered 400 for a name that a row holds,
\* while both tables hold two rows and a rename of a category to the name
\* of the other has been answered 400
C11_Witness ==
    /\ Cardinality(DOMAIN products) = 2
    /\ Cardinality(DOMAIN categories) = 2
    /\ resp.op = "category-update"
    /\ resp.status = HTTP_400_BAD_REQUEST
    /\ resp.pk \in DOMAIN categories
    /\ \E w \in Workers :
          /\ req[w].pc = "done"
          /\ req[w].pk = 0
          /\ req[w].status = HTTP_400_BAD_REQUEST
          /\ ~IsCategory(req[w].product)
          /\ ProductNameTaken(req[w].product.name, 0)

\* C12: the outcome of a purchase is decided in a fixed order: a missing or
\* invalid credential gives 403 whatever the rest of the request; otherwise
\* an unknown product id gives 404 whatever the quantity; otherwise an
\* invalid quantity gives 400; only a valid quantity is compared with the
\* stock; and a purchase that fails modifies no product.
C12_ChecksInOrder ==
    [][\A w \in Workers :
          /\ (/\ req[w].pc = "idle" /\ req'[w].pc # "idle"
               /\ req'[w].key \notin IssuedKeys)
              => /\ req'[w].pc = "done"
                 /\ req'[w].status = HTTP_403_FORBIDDEN
                 /\ products' = products
          /\ (/\ req[w].pc = "idle" /\ req'[w].pc # "idle"
               /\ req'[w].key \in IssuedKeys
               /\ req'[w].pk \notin DOMAIN products)
              => /\ req'[w].pc = "done"
                 /\ req'[w].status = HTTP_404_NOT_FOUND
                 /\ products' = products
          /\ (Completes(w) /\ Violated(req[w].quantity) # "none")
              => /\ req'[w].status = HTTP_400_BAD_REQUEST
                 /\ Available(req'[w].detail) = -1
                 /\ products' = products
          /\ (Completes(w) /\ req'[w].status # HTTP_200_OK)
              => products' = products]_vars

\* C13: no purchase is lost: when purchases are the only writes to a
\* product, its stock is the initial stock minus the quantities of the
\* purchases answered 200, that is, every purchase answered 200 leaves the
\* stock of the row lower by its quantity than the stock it found there.
C13_NoPurchaseLost ==
    [][\A w \in Workers :
          (/\ Completes(w)
           /\ req'[w].status = HTTP_200_OK
           /\ req[w].pk \in DOMAIN products)
          => /\ req[w].pk \in DOMAIN products'
             /\ products'[req[w].pk].stock_quantity
                   = products[req[w].pk].stock_quantity
                       - PyInt(req[w].quantity).v]_vars

\* C14: a purchase changes at most the stock (and updated_at) of its
\* product: every other field of the row, every other row and every
\* category is after its save as the last committed write left it, also
\* when a PUT or PATCH of the row commits between its read and its save.
C14_PurchaseWritesStockOnly ==
    [][\A w \in Workers :
          (Completes(w) /\ req[w].pk \in DOMAIN products)
          => /\ categories' = categories
             /\ DOMAIN products' = DOMAIN products
             /\ \A pk \in DOMAIN products :
                   \A f \in DOMAIN products[pk] :
                       (pk # req[w].pk \/ f # "stock_quantity")
                       => products'[pk][f] = products[pk][f]]_vars

\* C15: a purchase adds no row to the table of products: no id is in the
\* table after its save that was absent just before, in particular not the
\* id of a product deleted between its read and its save.
C15_PurchaseAddsNoProduct ==
    [][\A w \in Workers :
          Completes(w) => DOMAIN products' \subseteq DOMAIN products]_vars

====
